---- MODULE Spec2Model ----
(***************************************************************************)
(* Request execution engine of StromboliClient (src/src/client.ts) and the *)
(* error factories of StromboliError (src/src/errors.ts).                  *)
(*                                                                         *)
(* One behaviour is one logical call of StromboliClient.request on a       *)
(* client whose options were fixed by the constructor.  Every await of     *)
(* request() is a suspension point and so a phase of the call:             *)
(*   idle -> onRequest -> inflight -> onResponse -> (backoff -> ...) done  *)
(* Timer callbacks and the caller's abort run between those points.        *)
(* JavaScript runs a callback to completion and drains the promise jobs    *)
(* before the next timer or I/O callback, so the abort of the controller   *)
(* of an in-flight fetch, the rejection of that fetch with AbortError and  *)
(* the catch block of request() form one step.                             *)
(***************************************************************************)
EXTENDS Integers, Sequences, FiniteSets, TLC

\* ------------------------------------------------------------------ bounds
MaxRetries == 3

\* ------------------------------------------------------- program constants
DefaultBaseDelay == 1000

\* Value of the timeout option the model draws from (the tests' 50 ms).
Timeouts == {50}

\* HTTP statuses the transport answers with.
Statuses == {200, 404, 499, 500}

\* `undefined` for the optional status of an error.
Undefined == -1

\* ------------------------------------------------------------- JS values
Digit(d) ==
  CASE d = 0 -> "0" [] d = 1 -> "1" [] d = 2 -> "2" [] d = 3 -> "3"
    [] d = 4 -> "4" [] d = 5 -> "5" [] d = 6 -> "6" [] d = 7 -> "7"
    [] d = 8 -> "8" [] d = 9 -> "9"

RECURSIVE NumToString(_)
NumToString(n) ==
  IF n < 10 THEN Digit(n) ELSE NumToString(n \div 10) \o Digit(n % 10)

\* A JS value found in the `error` field of a response body.
StrVal(s) == [t |-> "str", s |-> s, n |-> 0]
NumVal(n) == [t |-> "num", s |-> "", n |-> n]

\* String(v)
String(v) == IF v.t = "str" THEN v.s ELSE NumToString(v.n)

\* Response bodies: undefined, null, a non-empty string, an object without
\* an `error` field, objects with an `error` field (a string, a number).
Body(t, hasError, error) == [t |-> t, hasError |-> hasError, error |-> error]
BodyUndefined == Body("undefined", FALSE, StrVal(""))
BodyNull      == Body("null", FALSE, StrVal(""))
BodyString    == Body("string", FALSE, StrVal(""))
BodyObject    == Body("object", FALSE, StrVal(""))
BodyErrStr    == Body("object", TRUE, StrVal("Job not found"))
BodyErrNum    == Body("object", TRUE, NumVal(42))
ErrorBodies   == {BodyUndefined, BodyNull, BodyString, BodyObject, BodyErrStr, BodyErrNum}

\* JS truthiness of a body: undefined and null are falsy.
TruthyBody(b) == b.t \notin {"undefined", "null"}

\* Payloads: undefined (empty body), a falsy payload, an object payload.
DataUndefined == "undefined"
DataValues    == {"undefined", "falsy", "d1"}
TruthyData(d) == d \notin {"undefined", "falsy"}

\* ------------------------------------------------------------ errors.ts
Err(message, code, status) == [message |-> message, code |-> code, status |-> status]
NoErr == Err("", "NONE", Undefined)

\* typeof body === 'object' (true of null as well)
TypeofObject(body) == body.t \in {"object", "null"}

fromResponse(status, body) ==
  Err(IF TypeofObject(body) /\ body.t # "null" /\ body.hasError
        THEN String(body.error)
        ELSE "HTTP " \o NumToString(status),
      "HTTP_ERROR", status)

networkError == Err("Network request failed", "NETWORK_ERROR", Undefined)

\* A timeout error that sets a status (408).
timeoutError_WithStatus(timeout) ==
  Err("Request timed out after " \o NumToString(timeout) \o "ms", "TIMEOUT_ERROR", 408)

timeoutError(timeout) ==
  Err("Request timed out after " \o NumToString(timeout) \o "ms", "TIMEOUT_ERROR", Undefined)

abortedError == Err("Request was aborted", "ABORTED", Undefined)

\* ------------------------------------------------------------- the state
VARIABLES
  cfg,            \* this.options, and whether the call passes a signal
  phase,          \* where the call is suspended
  attempt,        \* the `attempt` argument of the running request() frame
  transportCalls, \* number of invocations of fn(controller.signal)
  resp,           \* the ApiResult of the latest transport answer
  failures,       \* number of attempts that ended in a classified error
  lastError,      \* the classified error of the latest failed attempt
  lastOrigin,     \* what ended the latest failed attempt
  origins,        \* what ended the failed attempts so far
  onErrorCalls,   \* the onError hook: number of calls, latest argument
  sleeps,         \* delays passed to the backoff setTimeout, in order
  timers,         \* attempts whose timeout timer is armed
  ctrlAborted,    \* controller.signal.aborted of the running frame
  linked,         \* the running frame's controller listens to the caller's signal
  extAborted,     \* externalSignal.aborted
  result          \* what the call delivered to its caller

hist == <<failures, lastError, lastOrigin, origins>>

reqVars == <<cfg, phase, attempt, transportCalls, resp, hist, onErrorCalls, sleeps,
             timers, ctrlAborted, linked, extAborted, result>>

\* One invocation of StromboliClient.stream, a generator: its body runs
\* only while the consumer waits for the next event.
VARIABLES
  source,         \* the lines the server sends, and whether the last one ends in a newline
  wire,           \* the text the server has still to send
  avail,          \* a chunk, or the end of the body, waits in the response body
  gap,            \* time since the server last made a chunk available
  gapMax,         \* the longest such time so far
  sPhase,         \* where the generator is suspended
  isConnected,    \* isConnected
  connectionTimer,\* time left on the connection timer, or Off
  idleTimer,      \* time left on the idle timer, or Off
  sAborted,       \* controller.signal.aborted
  sResp,          \* the response of fetch: status, and whether it has a body
  buffer,         \* buffer
  pendingLines,   \* the lines of the current chunk the for loop has still to visit
  after,          \* what follows the pending yield: continue, return or break
  events,         \* the events yielded so far
  sError          \* the error the generator threw

streamVars == <<source, wire, avail, gap, gapMax, sPhase, isConnected, connectionTimer,
                idleTimer, sAborted, sResp, buffer, pendingLines, after, events, sError>>

\* The state of one waitForJob() call.
VARIABLES
  pOpts,        \* the options of the call: pollInterval, maxWaitTime, onStatusChange
  pPhase,       \* "idle", "fetching" (await getJob), "sleeping", "returned", "threw"
  now,          \* Date.now(), in clock ticks
  startTime,    \* the local startTime
  sleepLeft,    \* the time left of the sleep between two polls
  lastStatus,   \* the local lastStatus
  polls,        \* the number of getJob calls started
  observed,     \* the statuses the polls returned, in poll order
  statusCalls,  \* the arguments of the onStatusChange calls, in call order
  pResult       \* how the call ended

pollVars == <<pOpts, pPhase, now, startTime, sleepLeft, lastStatus, polls, observed,
              statusCalls, pResult>>

\* The token of the client and the headers of its requests.
VARIABLES
  authToken,    \* this.authToken
  callKind,     \* the public method the running call was made by
  lastRequest,  \* the latest request handed to fetch: the token stored at that
                \* time and the Authorization header the request carries
  issued,       \* the access_token of the response the running call returned
  callToken     \* the token that was stored when the running call was made

authVars == <<authToken, callKind, lastRequest, issued, callToken>>

\* One call of isCompatible().
VARIABLES
  apiVersion,   \* the argument, a string as the sequence of its characters
  vPhase,       \* "input" before the call, "checked" after it
  compatible    \* the value the call returned

versionVars == <<apiVersion, vPhase, compatible>>

otherVars == <<streamVars, pollVars, versionVars>>
notStream == <<reqVars, pollVars, authVars, versionVars>>
notPoll   == <<reqVars, streamVars, authVars, versionVars>>

vars == <<reqVars, otherVars, authVars>>

\* retryDelay is a number or a function (attempt, baseDelay) => number.
RetryDelayFns == {"doc"}
RetryDelays ==
  { [t |-> "number", n |-> n, fn |-> "none"] : n \in {100} } \cup
  { [t |-> "function", n |-> 0, fn |-> f] : f \in RetryDelayFns }

\* The sample function, after the one of the option's documentation:
\* (attempt, base) => base * 2 ** (attempt - 1) + 7.
ApplyRetryDelayFn(f, a, b) == b * 2^(a - 1) + 7

Configs ==
  [ timeout      : Timeouts,
    retries      : 0..MaxRetries,
    retryDelay   : RetryDelays,
    retryBackoff : {"exponential", "linear"},
    hasOnRequest : BOOLEAN,
    hasOnResponse: BOOLEAN,
    hasOnError   : BOOLEAN,
    hasSignal    : BOOLEAN ]

\* A transport answer as openapi-fetch shapes it: data on 2xx, error otherwise.
ApiResult(data, error, status) == [data |-> data, error |-> error, status |-> status]
NoResp == ApiResult(DataUndefined, BodyUndefined, Undefined)
ApiResults ==
  { ApiResult(d, BodyUndefined, s) : d \in DataValues, s \in {x \in Statuses : x >= 200 /\ x < 300} } \cup
  { ApiResult(DataUndefined, b, s) : b \in ErrorBodies, s \in {x \in Statuses : x < 200 \/ x >= 300} }

Pending     == [kind |-> "pending",  data |-> DataUndefined, error |-> NoErr]
Returned(d) == [kind |-> "returned", data |-> d,             error |-> NoErr]
Threw(e)    == [kind |-> "threw",    data |-> DataUndefined, error |-> e]

\* The value of this.authToken: undefined or a string.
Token(s) == [defined |-> TRUE, s |-> s]
TokenUndefined == [defined |-> FALSE, s |-> ""]
Tokens == {Token(""), Token("t1")}

\* The access_token field of a TokenResponse: absent, empty, or a token.
AccessTokens == {TokenUndefined, Token(""), Token("t2")}

\* The public methods that go through request().
TokenCalls == {"authenticate", "refreshToken"}

\* What the response of a call of this kind can carry as access_token.
accessTokens(kind) == IF kind \in TokenCalls THEN AccessTokens ELSE {TokenUndefined}

\* JS truthiness of a token: undefined and the empty string are falsy.
TruthyToken(token) == token.defined /\ token.s # ""

\* The Authorization header of a request.
Header(value) == [present |-> TRUE, value |-> value]
NoHeader == [present |-> FALSE, value |-> ""]

\* if (this.authToken) headers.set('Authorization', `Bearer ${this.authToken}`)
authHeader(token) == IF TruthyToken(token) THEN Header("Bearer " \o token.s) ELSE NoHeader

\* getAuthToken(): return this.authToken
getAuthToken(token) == token

\* isAuthenticated(): return this.authToken !== undefined
isAuthenticated(token) == token # TokenUndefined

\* A request that carries the token of the moment the call was made.
Outbound_Snapshot(by, token) ==
  [by |-> by, token |-> callToken, authorization |-> authHeader(callToken)]

\* The request that fetch is handed, built when the transport is invoked.
Outbound(by, token) == [by |-> by, token |-> token, authorization |-> authHeader(token)]
NoRequest == [by |-> "none", token |-> TokenUndefined, authorization |-> NoHeader]

\* A method that stores whatever access_token the response has.
tokenAfter_Unconditional(kind, token, access) ==
  IF kind = "logout" THEN TokenUndefined
  ELSE IF kind \in TokenCalls THEN access
  ELSE token

\* A logout that leaves the token in place.
tokenAfter_KeepsOnLogout(kind, token, access) ==
  IF kind \in TokenCalls /\ TruthyToken(access) THEN access ELSE token

\* A method that writes only if the token is still the one the call
\* started with.
tokenAfter_KeepsNewer(kind, token, access) ==
  IF token # callToken THEN token
  ELSE IF kind = "logout" THEN TokenUndefined
  ELSE IF kind \in TokenCalls /\ TruthyToken(access) THEN access
  ELSE token

\* What a public method does to the token once its request has returned:
\* logout clears it, authenticate and refreshToken store a truthy
\* access_token, every other method leaves it alone.
tokenAfter(kind, token, access) ==
  IF kind = "logout" THEN TokenUndefined
  ELSE IF kind \in TokenCalls /\ TruthyToken(access) THEN access
  ELSE token

\* A client without a token that has sent nothing.
AuthIdle ==
  /\ authToken = TokenUndefined
  /\ callKind = "plain"
  /\ lastRequest = NoRequest
  /\ issued = TokenUndefined
  /\ callToken = TokenUndefined

\* The state of a client on which no call has been made yet.
ReqInit ==
  /\ cfg \in Configs
  /\ phase = "idle"
  /\ attempt = 0
  /\ transportCalls = 0
  /\ resp = NoResp
  /\ failures = 0
  /\ lastError = NoErr
  /\ lastOrigin = "none"
  /\ origins = {}
  /\ onErrorCalls = [count |-> 0, last |-> NoErr]
  /\ sleeps = << >>
  /\ timers = {}
  /\ ctrlAborted = FALSE
  /\ linked = FALSE
  /\ extAborted = FALSE
  /\ result = Pending

\* ------------------------------------------------------------ client.ts
\* shouldRetry with the cap off by one: `attempt >= retries`.
shouldRetry_OffByOne(error, att) ==
  IF att >= cfg.retries THEN FALSE
  ELSE error.code = "NETWORK_ERROR" \/ (error.status # Undefined /\ error.status >= 500)

\* shouldRetry without the `>= 500` test: every error with a status retries.
shouldRetry_AnyStatus(error, att) ==
  IF att > cfg.retries THEN FALSE
  ELSE error.code = "NETWORK_ERROR" \/ error.status # Undefined

shouldRetry(error, att) ==
  IF att > cfg.retries THEN FALSE
  ELSE error.code = "NETWORK_ERROR" \/ (error.status # Undefined /\ error.status >= 500)

\* getRetryDelay counting the attempt about to start instead of the retry:
\* every use of `attempt` is one too large.
getRetryDelay_NextAttempt(att) ==
  IF cfg.retryDelay.t = "function"
    THEN ApplyRetryDelayFn(cfg.retryDelay.fn, att + 1, DefaultBaseDelay)
    ELSE IF cfg.retryBackoff = "exponential"
           THEN cfg.retryDelay.n * 2^att
           ELSE cfg.retryDelay.n * (att + 1)

getRetryDelay(att) ==
  IF cfg.retryDelay.t = "function"
    THEN ApplyRetryDelayFn(cfg.retryDelay.fn, att, DefaultBaseDelay)
    ELSE IF cfg.retryBackoff = "exponential"
           THEN cfg.retryDelay.n * 2^(att - 1)
           ELSE cfg.retryDelay.n * att

\* onError forgotten in the network branch of the catch block.
notifyError_SkipNetwork(calls, error) ==
  IF cfg.hasOnError /\ error.code # "NETWORK_ERROR"
    THEN [count |-> calls.count + 1, last |-> error]
    ELSE calls

\* this.options.onError?.(error)
notifyError(calls, error) ==
  IF cfg.hasOnError THEN [count |-> calls.count + 1, last |-> error] ELSE calls

\* The attempt's failure is classified as `error`; origin is the event that
\* ended the attempt.
Classified(origin, error) ==
  /\ failures' = failures + 1
  /\ lastError' = error
  /\ lastOrigin' = origin
  /\ origins' = origins \cup {origin}

\* A retried call that throws an error wrapping the last one.
finalError_Wrapped(error, att) ==
  IF att > 1 THEN Err("Retries exhausted: " \o error.message, error.code, error.status)
  ELSE error

\* `throw stromboliError` / `throw networkError` after the retry check: the
\* error leaves request() as it is, through every enclosing frame (the
\* frames return the inner promise without awaiting it).
finalError(error, att) == error

\* `if (error)`: the test of the data forgotten.
isFailure_ErrorOnly(r) == TruthyBody(r.error)

\* if (error || !data)
isFailure(r) == TruthyBody(r.error) \/ ~TruthyData(r.data)

\* The listener on the caller's signal forgotten.
linkSignal_Never(hasSignal) == FALSE

\* if (externalSignal) externalSignal.addEventListener('abort', () =>
\* controller.abort()): whether the new controller is linked.
linkSignal(hasSignal) == hasSignal

\* The check of an already aborted signal forgotten.
preAborted_Ignored(hasSignal, aborted) == FALSE

\* if (externalSignal) { if (externalSignal.aborted) ... }
preAborted(hasSignal, aborted) == hasSignal /\ aborted

\* Every AbortError taken for a timeout.
classifyAbort_AlwaysTimeout(aborted) == timeoutError(cfg.timeout)

\* The classification of an AbortError in the catch block; `aborted` is
\* externalSignal?.aborted at that moment.
classifyAbort(aborted) ==
  IF cfg.hasSignal /\ aborted THEN abortedError ELSE timeoutError(cfg.timeout)

\* An attempt ends in a classified error that is not looked at by the retry
\* check (the AbortError branch of the catch block): clearTimeout, onError,
\* throw.
EndTerminal(origin, error) ==
  /\ Classified(origin, error)
  /\ onErrorCalls' = notifyError(onErrorCalls, error)
  /\ timers' = timers \ {attempt}
  /\ phase' = "done"
  /\ result' = Threw(error)
  /\ sleeps' = sleeps

\* A retry that is handed over without the backoff sleep.
EndRetryable_NoSleep(origin, error) ==
  /\ Classified(origin, error)
  /\ onErrorCalls' = notifyError(onErrorCalls, error)
  /\ timers' = timers \ {attempt}
  /\ sleeps' = sleeps
  /\ IF shouldRetry(error, attempt)
       THEN /\ phase' = "backoff"
            /\ result' = result
       ELSE /\ phase' = "done"
            /\ result' = Threw(finalError(error, attempt))

\* The retry path without its clearTimeout: the timer of the failed
\* attempt stays armed during the sleep.
EndRetryable_KeepsTimer(origin, error) ==
  /\ Classified(origin, error)
  /\ onErrorCalls' = notifyError(onErrorCalls, error)
  /\ IF shouldRetry(error, attempt)
       THEN /\ sleeps' = Append(sleeps, getRetryDelay(attempt))
            /\ phase' = "backoff"
            /\ timers' = timers
            /\ result' = result
       ELSE /\ sleeps' = sleeps
            /\ phase' = "done"
            /\ timers' = timers \ {attempt}
            /\ result' = Threw(finalError(error, attempt))

\* An attempt ends in an HTTP_ERROR (try block) or a NETWORK_ERROR (catch
\* block): onError, then the retry check; clearTimeout on either path.
EndRetryable(origin, error) ==
  /\ Classified(origin, error)
  /\ onErrorCalls' = notifyError(onErrorCalls, error)
  /\ timers' = timers \ {attempt}
  /\ IF shouldRetry(error, attempt)
       THEN /\ sleeps' = Append(sleeps, getRetryDelay(attempt))
            /\ phase' = "backoff"
            /\ result' = result
       ELSE /\ sleeps' = sleeps
            /\ phase' = "done"
            /\ result' = Threw(finalError(error, attempt))

\* The code after `await fn(...)` and the onResponse hook.
Settle(r) ==
  IF isFailure(r)
    THEN /\ EndRetryable("response", fromResponse(r.status, r.error))
         /\ UNCHANGED <<authToken, issued>>
    ELSE /\ result' = Returned(r.data)
         /\ phase' = "done"
         /\ timers' = timers \ {attempt}
         /\ \E access \in accessTokens(callKind) :
              /\ issued' = access
              /\ authToken' = tokenAfter(callKind, authToken, access)
         /\ UNCHANGED <<hist, onErrorCalls, sleeps>>

\* fn(controller.signal) is called.  A fetch that is handed an aborted
\* signal rejects at once with AbortError.
InvokeTransport(aborted) ==
  /\ transportCalls' = transportCalls + 1
  /\ IF ctrlAborted
       THEN /\ EndTerminal("presend", classifyAbort(aborted))
            /\ UNCHANGED lastRequest
       ELSE /\ phase' = "inflight"
            /\ lastRequest' = Outbound("request", authToken)
            /\ UNCHANGED <<hist, onErrorCalls, sleeps, timers, result>>

\* The head of request(fn, externalSignal, att): controller, timer, the
\* check of the caller's signal, the link, and either the onRequest hook or
\* the transport.  The throw of the pre-aborted case is before the try
\* block, so neither the catch nor the finally clears the new timer.
Begin(att) ==
  /\ attempt' = att
  /\ resp' = NoResp
  /\ ctrlAborted' = FALSE
  /\ UNCHANGED <<otherVars, cfg, extAborted, authToken, issued>>
  /\ IF preAborted(cfg.hasSignal, extAborted)
       THEN /\ timers' = timers \cup {att}
            /\ Classified("preabort", abortedError)
            /\ onErrorCalls' = notifyError(onErrorCalls, abortedError)
            /\ result' = Threw(abortedError)
            /\ phase' = "done"
            /\ linked' = FALSE
            /\ UNCHANGED <<transportCalls, sleeps, lastRequest>>
       ELSE /\ linked' = linkSignal(cfg.hasSignal)
            /\ IF cfg.hasOnRequest
                 THEN /\ phase' = "onRequest"
                      /\ timers' = timers \cup {att}
                      /\ UNCHANGED <<transportCalls, hist, onErrorCalls, sleeps, result,
                                     lastRequest>>
                 ELSE /\ transportCalls' = transportCalls + 1
                      /\ phase' = "inflight"
                      /\ timers' = timers \cup {att}
                      /\ lastRequest' = Outbound("request", authToken)
                      /\ UNCHANGED <<hist, onErrorCalls, sleeps, result>>

\* A public method calls this.request(fn, externalSignal).
Call ==
  /\ phase = "idle"
  /\ callKind' = "plain"
  /\ callToken' = authToken
  /\ Begin(1)

\* await this.options.onRequest(...) resolves.
OnRequestDone ==
  /\ phase = "onRequest"
  /\ InvokeTransport(extAborted)
  /\ UNCHANGED <<otherVars, cfg, attempt, resp, ctrlAborted, linked, extAborted>>
  /\ UNCHANGED <<authToken, callKind, issued, callToken>>

\* await this.options.onRequest(...) rejects: the catch block sees a value
\* that is neither a StromboliError nor an AbortError.
OnRequestThrow ==
  /\ phase = "onRequest"
  /\ EndRetryable("onRequest", networkError)
  /\ UNCHANGED <<otherVars, cfg, attempt, transportCalls, resp, ctrlAborted, linked, extAborted>>
  /\ UNCHANGED authVars

\* await fn(controller.signal) resolves with an ApiResult.
TransportResolve ==
  /\ phase = "inflight"
  /\ \E r \in ApiResults :
       /\ resp' = r
       /\ IF cfg.hasOnResponse
            THEN /\ phase' = "onResponse"
                 /\ UNCHANGED <<hist, onErrorCalls, sleeps, timers, result, authToken,
                                issued>>
            ELSE Settle(r)
  /\ UNCHANGED <<otherVars, cfg, attempt, transportCalls, ctrlAborted, linked, extAborted>>
  /\ UNCHANGED <<callKind, lastRequest, callToken>>

\* await fn(controller.signal) rejects with a fetch failure.
TransportReject ==
  /\ phase = "inflight"
  /\ EndRetryable("transport", networkError)
  /\ UNCHANGED <<otherVars, cfg, attempt, transportCalls, resp, ctrlAborted, linked, extAborted>>
  /\ UNCHANGED authVars

\* await this.options.onResponse(...) resolves.
OnResponseDone ==
  /\ phase = "onResponse"
  /\ Settle(resp)
  /\ UNCHANGED <<otherVars, cfg, attempt, transportCalls, resp, ctrlAborted, linked, extAborted>>
  /\ UNCHANGED <<callKind, lastRequest, callToken>>

\* await this.options.onResponse(...) rejects.
OnResponseThrow ==
  /\ phase = "onResponse"
  /\ EndRetryable("onResponse", networkError)
  /\ UNCHANGED <<otherVars, cfg, attempt, transportCalls, resp, ctrlAborted, linked, extAborted>>
  /\ UNCHANGED authVars

\* The timeout timer of attempt a fires: () => controller.abort().
TimerFire ==
  \E a \in timers :
    /\ ctrlAborted' = IF a = attempt THEN TRUE ELSE ctrlAborted
    /\ IF a = attempt /\ phase = "inflight"
         THEN /\ EndTerminal("timer", classifyAbort(extAborted))
         ELSE /\ timers' = timers \ {a}
              /\ UNCHANGED <<phase, hist, onErrorCalls, sleeps, result>>
    /\ UNCHANGED <<otherVars, cfg, attempt, transportCalls, resp, linked, extAborted>>
    /\ UNCHANGED authVars

\* The caller aborts the signal it passed: every linked listener aborts its
\* controller.  Nothing of a finished call reads the signal.
ExternalAbort ==
  /\ cfg.hasSignal
  /\ ~extAborted
  /\ phase # "done"
  /\ extAborted' = TRUE
  /\ ctrlAborted' = IF linked THEN TRUE ELSE ctrlAborted
  /\ IF phase = "inflight" /\ linked
       THEN EndTerminal("signal", classifyAbort(TRUE))
       ELSE UNCHANGED <<phase, hist, onErrorCalls, sleeps, timers, result>>
  /\ UNCHANGED <<otherVars, cfg, attempt, transportCalls, resp, linked>>
  /\ UNCHANGED authVars

\* await new Promise((r) => setTimeout(r, delay)) resolves and the frame
\* calls this.request(fn, externalSignal, attempt + 1).
BackoffDone ==
  /\ phase = "backoff"
  /\ Begin(attempt + 1)
  /\ UNCHANGED <<callKind, callToken>>

Next ==
  \/ Call
  \/ OnRequestDone
  \/ OnRequestThrow
  \/ TransportResolve
  \/ TransportReject
  \/ OnResponseDone
  \/ OnResponseThrow
  \/ TimerFire
  \/ ExternalAbort
  \/ BackoffDone

TypeOK ==
  /\ cfg \in Configs
  /\ phase \in {"idle", "onRequest", "inflight", "onResponse", "backoff", "done"}
  /\ attempt \in 0..(MaxRetries + 1)
  /\ transportCalls \in 0..(MaxRetries + 1)
  /\ timers \subseteq 1..(MaxRetries + 1)
  /\ ctrlAborted \in BOOLEAN
  /\ linked \in BOOLEAN
  /\ extAborted \in BOOLEAN
  /\ failures \in 0..(MaxRetries + 1)
  /\ onErrorCalls.count \in 0..(MaxRetries + 1)

\* ------------------------------------------------- client.ts: stream()
\* ------------------------------------------------------------------ bounds
MaxLines == 3

\* Text is a sequence of characters.
NL == "\n"
DataPrefix   == <<"d", "a", "t", "a", ":", " ">>
ErrorPrefix  == <<"e", "r", "r", "o", "r", ":", " ">>
DoneSentinel == <<"[", "D", "O", "N", "E", "]">>

\* The lines a server sends: two data lines, the sentinel, an error line, a
\* comment line and an empty line.
LineA     == DataPrefix \o <<"A">>
LineB     == DataPrefix \o <<"B">>
LineDone  == DataPrefix \o DoneSentinel
LineError == ErrorPrefix \o <<"E">>
LineOther == <<":">>
LineEmpty == << >>
SourceLines == {LineA, LineB, LineDone, LineError, LineOther, LineEmpty}

\* The options of the call, in clock ticks.
StreamConnectionTimeout == 2
StreamIdleTimeout == 1

\* A timer that is not armed.
Off == -1

\* line.startsWith(prefix)
startsWith(line, prefix) ==
  /\ Len(line) >= Len(prefix)
  /\ SubSeq(line, 1, Len(prefix)) = prefix

\* A slice that starts one character early.
slice_OffByOne(line, n) == SubSeq(line, n, Len(line))

\* line.slice(n)
slice(line, n) == SubSeq(line, n + 1, Len(line))

\* text.split('\n')
RECURSIVE SplitFrom(_, _, _)
SplitFrom(text, cur, acc) ==
  IF text = << >> THEN Append(acc, cur)
  ELSE IF Head(text) = NL
         THEN SplitFrom(Tail(text), << >>, Append(acc, cur))
         ELSE SplitFrom(Tail(text), Append(cur, Head(text)), acc)

split(text) == SplitFrom(text, << >>, << >>)

\* The text of a sequence of lines, each followed by a newline but, when
\* `terminated` is false, the last one.
RECURSIVE JoinLines(_, _)
JoinLines(ls, terminated) ==
  IF ls = << >> THEN << >>
  ELSE IF Len(ls) = 1 /\ ~terminated THEN Head(ls)
  ELSE Head(ls) \o <<NL>> \o JoinLines(Tail(ls), terminated)

Sources ==
  { [lines |-> ls, terminated |-> t] :
      ls \in UNION { [1..n -> SourceLines] : n \in 0..MaxLines }, t \in BOOLEAN }

\* StreamEvent
ContentEvent(data) == [type |-> "content", data |-> data]
ErrorEvent(error)  == [type |-> "error",   data |-> error]
DoneEvent          == [type |-> "done",    data |-> << >>]
NoEvent            == [type |-> "none",    data |-> << >>]

\* A classification in which an error line ends the sequence.
classify_ErrorEnds(line) ==
  IF startsWith(line, DataPrefix)
    THEN IF slice(line, 6) = DoneSentinel
           THEN [event |-> DoneEvent, after |-> "return"]
           ELSE [event |-> ContentEvent(slice(line, 6)), after |-> "continue"]
  ELSE IF startsWith(line, ErrorPrefix)
    THEN [event |-> ErrorEvent(slice(line, 7)), after |-> "return"]
  ELSE [event |-> NoEvent, after |-> "continue"]

\* A classification that looks into the data and makes a tool_use event of
\* the payload "B".
classify_ToolUse(line) ==
  IF startsWith(line, DataPrefix)
    THEN IF slice(line, 6) = DoneSentinel
           THEN [event |-> DoneEvent, after |-> "return"]
           ELSE IF slice(line, 6) = <<"B">>
             THEN [event |-> [type |-> "tool_use", data |-> slice(line, 6)],
                   after |-> "continue"]
             ELSE [event |-> ContentEvent(slice(line, 6)), after |-> "continue"]
  ELSE IF startsWith(line, ErrorPrefix)
    THEN [event |-> ErrorEvent(slice(line, 7)), after |-> "continue"]
  ELSE [event |-> NoEvent, after |-> "continue"]

\* The body of the for loop for one line: the event it yields, if any, and
\* what follows the yield.
classify(line) ==
  IF startsWith(line, DataPrefix)
    THEN IF slice(line, 6) = DoneSentinel
           THEN [event |-> DoneEvent, after |-> "return"]
           ELSE [event |-> ContentEvent(slice(line, 6)), after |-> "continue"]
  ELSE IF startsWith(line, ErrorPrefix)
    THEN [event |-> ErrorEvent(slice(line, 7)), after |-> "continue"]
  ELSE [event |-> NoEvent, after |-> "continue"]

\* The for loop over `lines`, up to its first yield: the event yielded, the
\* lines left, and what follows the yield.
RECURSIVE NextYield(_)
NextYield(ls) ==
  IF ls = << >> THEN [event |-> NoEvent, rest |-> << >>, after |-> "read"]
  ELSE LET c == classify(Head(ls))
       IN IF c.event = NoEvent
            THEN NextYield(Tail(ls))
            ELSE [event |-> c.event, rest |-> Tail(ls), after |-> c.after]

\* A pop that loses the fragment after the last newline.
popLast_Dropped(parts) == << >>

\* lines.pop() ?? '': the text after the last newline.
popLast(parts) == parts[Len(parts)]

\* The response of fetch: its status, whether it has a body, and the body
\* the server sent with an error status (plain text, or the JSON of an
\* object with an `error` field).
StreamResp(status, hasBody, body) == [status |-> status, hasBody |-> hasBody, body |-> body]
NoStreamResp == StreamResp(Undefined, FALSE, BodyUndefined)
StreamResps ==
  { StreamResp(200, b, BodyUndefined) : b \in BOOLEAN } \cup
  { StreamResp(st, TRUE, b) : st \in {404, 500}, b \in {BodyString, BodyErrStr} }

\* await response.text(): the body as a string.  The text of a JSON body
\* still spells its `error` field, but it is a string and not an object.
responseText(body) == Body("string", body.hasError, body.error)

\* response.ok
responseOk(r) == r.status >= 200 /\ r.status < 300

\* A classification that takes the two timeouts for each other.
streamTimeoutError_Swapped(connected) ==
  IF connected
    THEN Err("Stream connection timeout after " \o NumToString(StreamConnectionTimeout) \o "ms",
             "CONNECTION_TIMEOUT", Undefined)
    ELSE Err("Stream idle timeout after " \o NumToString(StreamIdleTimeout) \o "ms",
             "IDLE_TIMEOUT", Undefined)

\* The errors of the AbortError branch of stream().
streamTimeoutError(connected) ==
  IF connected
    THEN Err("Stream idle timeout after " \o NumToString(StreamIdleTimeout) \o "ms",
             "IDLE_TIMEOUT", Undefined)
    ELSE Err("Stream connection timeout after " \o NumToString(StreamConnectionTimeout) \o "ms",
             "CONNECTION_TIMEOUT", Undefined)

streamError == Err("No response body", "STREAM_ERROR", Undefined)

\* No stream has been started.
StreamIdle ==
  /\ wire = JoinLines(source.lines, source.terminated)
  /\ avail = FALSE
  /\ gap = 0
  /\ gapMax = 0
  /\ sPhase = "idle"
  /\ isConnected = FALSE
  /\ connectionTimer = Off
  /\ idleTimer = Off
  /\ sAborted = FALSE
  /\ sResp = NoStreamResp
  /\ buffer = << >>
  /\ pendingLines = << >>
  /\ after = "none"
  /\ events = << >>
  /\ sError = NoErr

\* A failure that is followed by a new connection when the client retries.
StreamFail_Retry(error) ==
  /\ sError' = error
  /\ sPhase' = IF cfg.retries > 0 THEN "connecting" ELSE "failed"
  /\ idleTimer' = Off
  /\ connectionTimer' = IF cfg.retries > 0 THEN StreamConnectionTimeout ELSE Off

\* The generator throws: the catch block has classified the failure and the
\* finally block clears both timers.
StreamFail(error) ==
  /\ sError' = error
  /\ sPhase' = "failed"
  /\ idleTimer' = Off
  /\ connectionTimer' = Off

\* A return that leaves the idle timer armed.
StreamFinish_KeepsIdle(how) ==
  /\ sPhase' = how
  /\ connectionTimer' = Off
  /\ UNCHANGED idleTimer

\* The generator returns: the finally block clears both timers.
StreamFinish(how) ==
  /\ sPhase' = how
  /\ idleTimer' = Off
  /\ connectionTimer' = Off

\* resetIdleTimer(): the time left on the idle timer afterwards.
resetIdleTimer(timeout) == timeout

\* A pending reader.read() resolves as soon as a chunk or the end of the
\* body is available: no time passes and no timer fires in between.
readReady == sPhase = "reading" /\ avail

\* The body of the response has been received to its end and is closed.
bodyClosed == avail /\ wire = << >>

\* controller.abort() errors the body of the response unless it is closed
\* already: reader.read() then rejects with AbortError.
bodyErrored == sAborted /\ ~bodyClosed

\* The for loop runs on `ls` to its next yield, or ends and the generator
\* goes back to reader.read(), which rejects at once when the body is
\* errored.
RunLoop(ls, timer) ==
  LET y == NextYield(ls) IN
    IF y.event # NoEvent
      THEN /\ events' = Append(events, y.event)
           /\ pendingLines' = y.rest
           /\ after' = y.after
           /\ sPhase' = "yielded"
           /\ idleTimer' = timer
           /\ UNCHANGED <<connectionTimer, sError>>
      ELSE /\ pendingLines' = << >>
           /\ after' = "none"
           /\ UNCHANGED events
           /\ IF bodyErrored
                THEN StreamFail(streamTimeoutError(isConnected))
                ELSE /\ sPhase' = "reading"
                     /\ idleTimer' = timer
                     /\ UNCHANGED <<connectionTimer, sError>>

\* The consumer asks for the first event: the body starts, arms the
\* connection timer, builds the headers and calls fetch.
StreamStart ==
  /\ sPhase = "idle"
  /\ sPhase' = "connecting"
  /\ connectionTimer' = StreamConnectionTimeout
  /\ lastRequest' = Outbound("stream", authToken)
  /\ UNCHANGED <<source, wire, avail, gap, gapMax, isConnected, idleTimer, sAborted,
                 sResp, buffer, pendingLines, after, events, sError>>
  /\ UNCHANGED <<reqVars, pollVars, versionVars, authToken, callKind, issued, callToken>>

\* fetch resolves with the response headers.
StreamConnect ==
  /\ sPhase = "connecting"
  /\ \E r \in StreamResps :
       /\ sResp' = r
       /\ isConnected' = TRUE
       /\ IF ~responseOk(r)
            THEN /\ sPhase' = "errorBody"
                 /\ connectionTimer' = Off
                 /\ idleTimer' = resetIdleTimer(StreamIdleTimeout)
                 /\ UNCHANGED sError
            ELSE IF ~r.hasBody
                   THEN StreamFail(streamError)
                   ELSE /\ sPhase' = "reading"
                        /\ connectionTimer' = Off
                        /\ idleTimer' = resetIdleTimer(StreamIdleTimeout)
                        /\ UNCHANGED sError
  /\ UNCHANGED <<source, wire, avail, gap, gapMax, sAborted, buffer, pendingLines,
                 after, events>>
  /\ UNCHANGED notStream

\* await response.text() resolves for a non-2xx response.
StreamErrorBody ==
  /\ sPhase = "errorBody"
  /\ StreamFail(fromResponse(sResp.status, responseText(sResp.body)))
  /\ UNCHANGED <<source, wire, avail, gap, gapMax, isConnected, sAborted, sResp,
                 buffer, pendingLines, after, events>>
  /\ UNCHANGED notStream

\* fetch, response.text() or reader.read() rejects with a network failure.
StreamNetworkError ==
  /\ sPhase \in {"connecting", "errorBody", "reading"}
  /\ StreamFail(networkError)
  /\ UNCHANGED <<source, wire, avail, gap, gapMax, isConnected, sAborted, sResp,
                 buffer, pendingLines, after, events>>
  /\ UNCHANGED notStream

\* The connection timer fires: if (!isConnected) controller.abort().
ConnectionTimerFire ==
  /\ connectionTimer = 0
  /\ IF ~isConnected
       THEN /\ sAborted' = TRUE
            /\ IF sPhase = "connecting"
                 THEN StreamFail(streamTimeoutError(isConnected))
                 ELSE /\ connectionTimer' = Off
                      /\ UNCHANGED <<sPhase, idleTimer, sError>>
       ELSE /\ connectionTimer' = Off
            /\ UNCHANGED <<sAborted, sPhase, idleTimer, sError>>
  /\ UNCHANGED <<source, wire, avail, gap, gapMax, isConnected, sResp, buffer,
                 pendingLines, after, events>>
  /\ UNCHANGED notStream

\* The idle timer fires: controller.abort().  A pending response.text() or
\* reader.read() rejects with AbortError.
IdleTimerFire ==
  /\ idleTimer = 0
  /\ ~readReady
  /\ sAborted' = TRUE
  /\ IF sPhase \in {"connecting", "errorBody", "reading"}
       THEN StreamFail(streamTimeoutError(isConnected))
       ELSE /\ idleTimer' = Off
            /\ UNCHANGED <<sPhase, connectionTimer, sError>>
  /\ UNCHANGED <<source, wire, avail, gap, gapMax, isConnected, sResp, buffer,
                 pendingLines, after, events>>
  /\ UNCHANGED notStream

\* The server makes its next chunk, or the end of the body, available.
SourceDeliver ==
  /\ sPhase \in {"reading", "yielded"}
  /\ ~sAborted
  /\ ~avail
  /\ avail' = TRUE
  /\ gap' = 0
  /\ UNCHANGED <<source, wire, gapMax, sPhase, isConnected, connectionTimer, idleTimer,
                 sAborted, sResp, buffer, pendingLines, after, events, sError>>
  /\ UNCHANGED notStream

\* reader.read() resolves with a chunk: the first n characters of the wire.
ReadChunk ==
  /\ sPhase = "reading"
  /\ avail
  /\ wire # << >>
  /\ \E n \in 1..Len(wire) :
       LET text  == buffer \o SubSeq(wire, 1, n)
           parts == split(text)
       IN /\ wire' = SubSeq(wire, n + 1, Len(wire))
          /\ buffer' = popLast(parts)
          /\ RunLoop(SubSeq(parts, 1, Len(parts) - 1), resetIdleTimer(StreamIdleTimeout))
  /\ avail' = FALSE
  /\ UNCHANGED <<source, gap, gapMax, isConnected, sAborted, sResp>>
  /\ UNCHANGED notStream

\* A close that first classifies the text left in the buffer.
closeEvents_Flush(buf) ==
  IF classify(buf).event = NoEvent
    THEN <<DoneEvent>>
    ELSE <<classify(buf).event, DoneEvent>>

\* if (done) { yield { type: 'done' }; break }: what the end of the body
\* yields, `buf` being the text after the last newline.
closeEvents(buf) == <<DoneEvent>>

\* reader.read() resolves with done: yield { type: 'done' }, then break.
ReadDone ==
  /\ sPhase = "reading"
  /\ avail
  /\ wire = << >>
  /\ events' = events \o closeEvents(buffer)
  /\ after' = "break"
  /\ sPhase' = "yielded"
  /\ UNCHANGED <<source, wire, avail, gap, gapMax, isConnected, connectionTimer, idleTimer,
                 sAborted, sResp, buffer, pendingLines, sError>>
  /\ UNCHANGED notStream

\* A generator that goes on decoding after the sentinel.
endsAfter_BreakOnly(how) == how = "break"

\* What follows a yielded done event ends the generator: `return` after the
\* sentinel, `break` out of the read loop after the end of the body.
endsAfter(how) == how \in {"return", "break"}

\* The consumer asks for the next event: the generator goes on after its yield.
Resume ==
  /\ sPhase = "yielded"
  /\ IF endsAfter(after)
       THEN /\ StreamFinish("completed")
            /\ UNCHANGED <<pendingLines, after, events, sError>>
       ELSE RunLoop(pendingLines, idleTimer)
  /\ UNCHANGED <<source, wire, avail, gap, gapMax, isConnected, sAborted, sResp, buffer>>
  /\ UNCHANGED notStream

\* A consumer whose leaving aborts the connection.
Abandon_Aborts ==
  /\ sPhase = "yielded"
  /\ StreamFinish("abandoned")
  /\ sAborted' = TRUE
  /\ UNCHANGED <<source, wire, avail, gap, gapMax, isConnected, sResp, buffer,
                 pendingLines, after, events, sError>>
  /\ UNCHANGED notStream

\* The consumer leaves its loop at an event: generator.return() runs the
\* finally block.
Abandon ==
  /\ sPhase = "yielded"
  /\ StreamFinish("abandoned")
  /\ UNCHANGED <<source, wire, avail, gap, gapMax, isConnected, sAborted, sResp, buffer,
                 pendingLines, after, events, sError>>
  /\ UNCHANGED notStream

\* A tick of the clock.  An armed timer that is due fires before the next tick.
Countdown(t) == IF t = Off THEN Off ELSE t - 1

StreamTick ==
  /\ sPhase \in {"connecting", "errorBody", "reading", "yielded"}
  /\ ~readReady
  /\ connectionTimer # 0
  /\ idleTimer # 0
  /\ connectionTimer' = Countdown(connectionTimer)
  /\ idleTimer' = Countdown(idleTimer)
  /\ gap' = IF isConnected /\ ~avail /\ gap <= StreamIdleTimeout THEN gap + 1 ELSE gap
  /\ gapMax' = IF gap' > gapMax THEN gap' ELSE gapMax
  /\ UNCHANGED <<source, wire, avail, sPhase, isConnected, sAborted, sResp, buffer,
                 pendingLines, after, events, sError>>
  /\ UNCHANGED notStream

StreamNext ==
  \/ StreamStart
  \/ StreamConnect
  \/ StreamErrorBody
  \/ StreamNetworkError
  \/ ConnectionTimerFire
  \/ IdleTimerFire
  \/ SourceDeliver
  \/ ReadChunk
  \/ ReadDone
  \/ Resume
  \/ Abandon
  \/ StreamTick

\* --------------------------------------------- client.ts: waitForJob()
\* ------------------------------------------------------------------ bounds
MaxClock == 6

\* stromboli_internal_job.Status
JobStatuses == {"pending", "running", "completed", "failed", "crashed", "cancelled"}

\* The local lastStatus before the first poll.
StatusUndefined == "undefined"

\* The options of a call, in clock ticks.
PollIntervals == {1, 2}
MaxWaitTimes  == {0, 2}
PollOptions ==
  [pollInterval : PollIntervals, maxWaitTime : MaxWaitTimes, hasOnStatusChange : BOOLEAN]

JobId == "job-1"

\* The errors a getJob call can end with, after its own retries.
GetJobErrors == {fromResponse(404, BodyErrStr), networkError}

PollPending == [kind |-> "pending", status |-> StatusUndefined, poll |-> 0, error |-> NoErr]
PollReturned(st, n) == [kind |-> "returned", status |-> st, poll |-> n, error |-> NoErr]
PollThrew(e, n) == [kind |-> "threw", status |-> StatusUndefined, poll |-> n, error |-> e]

\* A test that leaves `cancelled` out.
isTerminal_NoCancelled(st) == st \in {"completed", "failed", "crashed"}

\* The terminal states test of waitForJob.
isTerminal(st) == st \in {"completed", "failed", "crashed", "cancelled"}

\* A test that takes every poll for a change.
statusChanged_Always(current, last) == TRUE

\* currentStatus !== lastStatus
statusChanged(current, last) == current # last

\* A deadline test that never fails the call.
deadlinePassed_Never(t, start, max) == FALSE

\* Date.now() - startTime > maxWaitTime
deadlinePassed(t, start, max) == t - start > max

waitTimeoutError(jobId, max) ==
  Err("Job " \o jobId \o " did not complete within " \o NumToString(max) \o "ms",
      "TIMEOUT_ERROR", Undefined)

\* A loop body that looks at the clock before it looks at the status.
afterPoll_DeadlineFirst(st, t, start, max) ==
  IF deadlinePassed(t, start, max) THEN "throw"
  ELSE IF isTerminal(st) THEN "return"
  ELSE "sleep"

\* The order of the checks after a poll: the terminal states first, then
\* the elapsed time, then the sleep.
afterPoll(st, t, start, max) ==
  IF isTerminal(st) THEN "return"
  ELSE IF deadlinePassed(t, start, max) THEN "throw"
  ELSE "sleep"

\* No waitForJob call has been made.
PollIdle ==
  /\ pPhase = "idle"
  /\ now = 0
  /\ startTime = 0
  /\ sleepLeft = 0
  /\ lastStatus = StatusUndefined
  /\ polls = 0
  /\ observed = << >>
  /\ statusCalls = << >>
  /\ pResult = PollPending

\* waitForJob(jobId, options) up to its first await: the first getJob call.
WaitForJob ==
  /\ pPhase = "idle"
  /\ startTime' = now
  /\ lastStatus' = StatusUndefined
  /\ polls' = 1
  /\ pPhase' = "fetching"
  /\ UNCHANGED <<pOpts, now, sleepLeft, observed, statusCalls, pResult>>
  /\ UNCHANGED notPoll

\* await this.getJob(jobId) resolves with a record: the rest of the loop body.
PollReturn ==
  /\ pPhase = "fetching"
  /\ \E st \in JobStatuses :
       /\ observed' = Append(observed, st)
       /\ IF statusChanged(st, lastStatus)
            THEN /\ statusCalls' = IF pOpts.hasOnStatusChange
                                     THEN Append(statusCalls, st)
                                     ELSE statusCalls
                 /\ lastStatus' = st
            ELSE UNCHANGED <<statusCalls, lastStatus>>
       /\ IF afterPoll(st, now, startTime, pOpts.maxWaitTime) = "return"
            THEN /\ pPhase' = "returned"
                 /\ pResult' = PollReturned(st, polls)
                 /\ UNCHANGED sleepLeft
            ELSE IF afterPoll(st, now, startTime, pOpts.maxWaitTime) = "throw"
                   THEN /\ pPhase' = "threw"
                        /\ pResult' = PollThrew(waitTimeoutError(JobId, pOpts.maxWaitTime), polls)
                        /\ UNCHANGED sleepLeft
                   ELSE /\ pPhase' = "sleeping"
                        /\ sleepLeft' = pOpts.pollInterval
                        /\ UNCHANGED pResult
  /\ UNCHANGED <<pOpts, now, startTime, polls>>
  /\ UNCHANGED notPoll

\* A loop that sleeps and polls again after a failed getJob.
PollThrow_Recovers ==
  /\ pPhase = "fetching"
  /\ pPhase' = "sleeping"
  /\ sleepLeft' = pOpts.pollInterval
  /\ UNCHANGED <<pOpts, now, startTime, lastStatus, observed, statusCalls, polls, pResult>>
  /\ UNCHANGED notPoll

\* await this.getJob(jobId) rejects: the error leaves waitForJob.
PollThrow ==
  /\ pPhase = "fetching"
  /\ \E e \in GetJobErrors :
       /\ pPhase' = "threw"
       /\ pResult' = PollThrew(e, polls)
  /\ UNCHANGED <<pOpts, now, startTime, sleepLeft, lastStatus, observed, statusCalls, polls>>
  /\ UNCHANGED notPoll

\* The sleep between two polls ends: the next getJob call.
PollWake ==
  /\ pPhase = "sleeping"
  /\ sleepLeft = 0
  /\ polls' = polls + 1
  /\ pPhase' = "fetching"
  /\ UNCHANGED <<pOpts, now, startTime, sleepLeft, lastStatus, observed, statusCalls, pResult>>
  /\ UNCHANGED notPoll

\* A tick of the clock while the call waits for getJob or sleeps.  A sleep
\* that is over ends before the next tick.
PollTick ==
  /\ pPhase \in {"fetching", "sleeping"}
  /\ ~(pPhase = "sleeping" /\ sleepLeft = 0)
  /\ now < MaxClock
  /\ now' = now + 1
  /\ sleepLeft' = IF pPhase = "sleeping" THEN sleepLeft - 1 ELSE sleepLeft
  /\ UNCHANGED <<pOpts, pPhase, startTime, lastStatus, polls, observed, statusCalls, pResult>>
  /\ UNCHANGED notPoll

PollNext ==
  \/ WaitForJob
  \/ PollReturn
  \/ PollThrow
  \/ PollWake
  \/ PollTick

\* ------------------------------------------- client.ts: authentication
\* setAuthToken(token)
SetAuthToken ==
  /\ \E t \in Tokens : authToken' = t
  /\ UNCHANGED <<reqVars, otherVars, callKind, lastRequest, issued, callToken>>

\* logout() calls this.request(...); the token is cleared after the await.
Logout ==
  /\ phase = "idle"
  /\ callKind' = "logout"
  /\ callToken' = authToken
  /\ Begin(1)

\* authenticate(clientId) calls this.request(...); the access token of the
\* response is stored after the await.
Authenticate ==
  /\ phase = "idle"
  /\ callKind' = "authenticate"
  /\ callToken' = authToken
  /\ Begin(1)

\* refreshToken(refreshToken) calls this.request(...); the access token of
\* the response is stored after the await.
RefreshToken ==
  /\ phase = "idle"
  /\ callKind' = "refreshToken"
  /\ callToken' = authToken
  /\ Begin(1)

\* The caller is done with a finished call and is free to make the next one.
NextCall ==
  /\ phase = "done"
  /\ phase' = "idle"
  /\ attempt' = 0
  /\ transportCalls' = 0
  /\ resp' = NoResp
  /\ failures' = 0
  /\ lastError' = NoErr
  /\ lastOrigin' = "none"
  /\ origins' = {}
  /\ onErrorCalls' = [count |-> 0, last |-> NoErr]
  /\ sleeps' = << >>
  /\ timers' = {}
  /\ ctrlAborted' = FALSE
  /\ linked' = FALSE
  /\ extAborted' = FALSE
  /\ result' = Pending
  /\ issued' = TokenUndefined
  /\ callToken' = TokenUndefined
  /\ UNCHANGED <<cfg, otherVars, authToken, callKind, lastRequest>>

AuthNext ==
  \/ Call
  \/ OnRequestDone
  \/ OnRequestThrow
  \/ TransportResolve
  \/ TransportReject
  \/ OnResponseDone
  \/ OnResponseThrow
  \/ TimerFire
  \/ ExternalAbort
  \/ BackoffDone
  \/ SetAuthToken
  \/ Logout
  \/ Authenticate
  \/ RefreshToken
  \/ NextCall
  \/ StreamStart

\* ------------------------------------------------------- specifications
\* A client with every option set, for the specifications that are not
\* about the request engine.
FixedConfig ==
  [ timeout |-> 50, retries |-> 1,
    retryDelay |-> [t |-> "number", n |-> 100, fn |-> "none"],
    retryBackoff |-> "exponential",
    hasOnRequest |-> TRUE, hasOnResponse |-> TRUE, hasOnError |-> TRUE,
    hasSignal |-> TRUE ]

\* The options of the stream and waitForJob calls where none is made.
NoSource == [lines |-> << >>, terminated |-> TRUE]
NoPollOptions == [pollInterval |-> 1, maxWaitTime |-> 0, hasOnStatusChange |-> FALSE]

\* --------------------------------------------------- version compatibility
\* The longest version string that is checked.
MaxVersionLen == 5

\* The characters of the version strings: a range operator, the hyphen of a
\* pre-release suffix, the dot, digits (two of them on either side of the
\* minimum's 3) and a letter.
VersionChars == {">", "-", ".", "0", "1", "3", "a"}
Versions == UNION { [1..n -> VersionChars] : n \in 0..MaxVersionLen }

API_VERSION_RANGE ==
  <<">", "=", "0", ".", "3", ".", "0", "-", "a", "l", "p", "h", "a">>

RangeOperators == {">", "=", "<", "~", "^"}
Digits == <<"0", "1", "2", "3", "4", "5", "6", "7", "8", "9">>
IsDigit(c) == \E d \in 1..10 : Digits[d] = c
DigitValue(c) == (CHOOSE d \in 1..10 : Digits[d] = c) - 1

\* Number.parseInt of a string without a leading digit.
NaN == -1

\* v.replace(/^[>=<~^]*/, '')
RECURSIVE stripRange(_)
stripRange(v) ==
  IF v # << >> /\ Head(v) \in RangeOperators THEN stripRange(Tail(v)) ELSE v

\* v.replace(/-.*$/, ''): the text before the first hyphen.
RECURSIVE stripSuffix(_)
stripSuffix(v) ==
  IF v = << >> \/ Head(v) = "-"
    THEN << >>
    ELSE <<Head(v)>> \o stripSuffix(Tail(v))

\* clean.split('.'), `cur` being the part that is being read.
RECURSIVE splitDots(_, _)
splitDots(v, cur) ==
  IF v = << >> THEN <<cur>>
  ELSE IF Head(v) = "." THEN <<cur>> \o splitDots(Tail(v), << >>)
  ELSE splitDots(Tail(v), Append(cur, Head(v)))

\* Number.parseInt(n, 10) on these characters: the value of the leading
\* digits, whatever follows them, and NaN when there is no leading digit.
RECURSIVE parseDigits(_, _)
parseDigits(n, acc) ==
  IF n # << >> /\ IsDigit(Head(n))
    THEN parseDigits(Tail(n), 10 * acc + DigitValue(Head(n)))
    ELSE acc

parseInt(n) ==
  IF n # << >> /\ IsDigit(Head(n)) THEN parseDigits(n, 0) ELSE NaN

\* x || 0
orZero(x) == IF x = NaN \/ x = 0 THEN 0 ELSE x

\* A parse that leaves the range operators in place.
parseVersion_KeepsRange(v) ==
  LET parts == splitDots(stripSuffix(v), << >>)
  IN  [i \in 1..Len(parts) |-> orZero(parseInt(parts[i]))]

parseVersion(v) ==
  LET clean == stripSuffix(stripRange(v))
      parts == splitDots(clean, << >>)
  IN  [i \in 1..Len(parts) |-> orZero(parseInt(parts[i]))]

\* list[i] ?? 0, with the index of the code (from 0).
componentAt(list, i) == IF i + 1 <= Len(list) THEN list[i + 1] ELSE 0

\* The loop of isCompatible from index i on.
RECURSIVE compareFrom(_, _, _)
compareFrom(i, minVersion, currentVersion) ==
  IF i >= 3 THEN TRUE
  ELSE LET min == componentAt(minVersion, i)
           cur == componentAt(currentVersion, i)
       IN  IF cur > min THEN TRUE
           ELSE IF cur < min THEN FALSE
           ELSE compareFrom(i + 1, minVersion, currentVersion)

isCompatible(v) ==
  compareFrom(0, parseVersion(API_VERSION_RANGE), parseVersion(v))

VersionIdle ==
  /\ vPhase = "input"
  /\ compatible = FALSE

\* isCompatible(apiVersion)
CallIsCompatible ==
  /\ vPhase = "input"
  /\ vPhase' = "checked"
  /\ compatible' = isCompatible(apiVersion)
  /\ UNCHANGED <<apiVersion, reqVars, streamVars, pollVars, authVars>>

VersionNext == CallIsCompatible

Init ==
  /\ ReqInit
  /\ source = NoSource
  /\ StreamIdle
  /\ pOpts = NoPollOptions
  /\ PollIdle
  /\ AuthIdle
  /\ apiVersion = << >>
  /\ VersionIdle

Spec == Init /\ [][Next]_vars

StreamInit ==
  /\ ReqInit
  /\ cfg = FixedConfig
  /\ source \in Sources
  /\ StreamIdle
  /\ pOpts = NoPollOptions
  /\ PollIdle
  /\ AuthIdle
  /\ apiVersion = << >>
  /\ VersionIdle

StreamSpec == StreamInit /\ [][StreamNext]_vars

PollInit ==
  /\ ReqInit
  /\ cfg = FixedConfig
  /\ source = NoSource
  /\ StreamIdle
  /\ pOpts \in PollOptions
  /\ PollIdle
  /\ AuthIdle
  /\ apiVersion = << >>
  /\ VersionIdle

PollSpec == PollInit /\ [][PollNext]_vars

AuthInit ==
  /\ ReqInit
  /\ cfg = FixedConfig
  /\ source = NoSource
  /\ StreamIdle
  /\ pOpts = NoPollOptions
  /\ PollIdle
  /\ AuthIdle
  /\ apiVersion = << >>
  /\ VersionIdle

AuthSpec == AuthInit /\ [][AuthNext]_vars

VersionInit ==
  /\ ReqInit
  /\ cfg = FixedConfig
  /\ source = NoSource
  /\ StreamIdle
  /\ pOpts = NoPollOptions
  /\ PollIdle
  /\ AuthIdle
  /\ apiVersion \in Versions
  /\ VersionIdle

VersionSpec == VersionInit /\ [][VersionNext]_vars

\* getJob settles (the request engine bounds every attempt by its timeout and
\* the attempts by `retries`), timers fire and time passes.
PollLiveSpec ==
  /\ PollInit
  /\ [][PollNext]_vars
  /\ WF_vars(WaitForJob)
  /\ WF_vars(PollReturn \/ PollThrow)
  /\ WF_vars(PollWake)
  /\ WF_vars(PollTick)

\* ----------------------------------------------------------- properties
\* The words of the retry policy: a retryable error is a network failure or
\* an HTTP error with status >= 500.
RetryableKind(e) ==
  e.code = "NETWORK_ERROR" \/ (e.code = "HTTP_ERROR" /\ e.status >= 500)

NonRetryableKind(e) ==
  (e.code = "HTTP_ERROR" /\ e.status < 500) \/ e.code \in {"ABORTED", "TIMEOUT_ERROR"}

\* An attempt that the transport ended: by an answer or by a fetch failure.
TransportOrigins == {"response", "transport"}

\* C1: with retries = N, a call whose every attempt is ended by the
\* transport with a retryable error (status >= 500 or a network failure)
\* makes exactly N+1 transport attempts and then fails, never more; a call
\* that returns returns the data of the attempt that succeeded and makes no
\* attempt after it, which is attempt k <= N+1 with exactly k transport
\* attempts when the transport ended every attempt before it.
C1_RetryCount ==
  /\ failures <= cfg.retries + 1
  /\ transportCalls <= cfg.retries + 1
  /\ (origins \subseteq TransportOrigins /\ failures >= 1 /\ RetryableKind(lastError))
       => /\ transportCalls >= failures
          /\ (failures = cfg.retries + 1
                <=> (phase = "done" /\ result.kind = "threw"))
          /\ (result.kind = "threw" => transportCalls = cfg.retries + 1)
  /\ result.kind = "returned"
       => /\ phase = "done"
          /\ result.data = resp.data
          /\ attempt = failures + 1
          /\ attempt <= cfg.retries + 1
          /\ (origins \subseteq TransportOrigins => transportCalls = attempt)

C1_Witness ==
  /\ cfg.retries = 2
  /\ phase = "done"
  /\ result.kind = "threw"
  /\ origins = TransportOrigins
  /\ lastError.status = 500
  /\ transportCalls = 3

C3_AbortCause ==
  /\ lastOrigin = "signal" => lastError.code = "ABORTED"
  /\ lastOrigin = "timer"
       => /\ lastError.code = "TIMEOUT_ERROR"
          /\ lastError.message = "Request timed out after " \o NumToString(cfg.timeout) \o "ms"
  /\ (lastOrigin \in {"timer", "presend"} /\ ~extAborted)
       => lastError.code = "TIMEOUT_ERROR"

C3_Witness ==
  /\ cfg.hasSignal
  /\ phase = "done"
  /\ lastOrigin = "timer"
  /\ lastError.message = "Request timed out after 50ms"
  /\ result.error.code = "TIMEOUT_ERROR"

\* C4: an attempt that starts while the caller's signal is already aborted
\* fails the call at once with ABORTED without invoking the transport;
\* any other attempt of a call with a signal is linked to it, and an abort
\* of the signal while that attempt runs aborts the attempt's controller.
C4_PreAbortedAndLinked ==
  [][ /\ (attempt' = attempt + 1 /\ cfg.hasSignal /\ extAborted)
           => /\ transportCalls' = transportCalls
              /\ phase' = "done"
              /\ result' = Threw(abortedError)
      /\ (attempt' = attempt + 1 /\ cfg.hasSignal /\ ~extAborted)
           => /\ linked'
              /\ phase' \in {"onRequest", "inflight"}
      /\ (~extAborted /\ extAborted' /\ phase \in {"onRequest", "inflight", "onResponse"})
           => ctrlAborted'
    ]_vars

C4_Witness ==
  /\ attempt = 1
  /\ phase = "done"
  /\ lastOrigin = "preabort"
  /\ transportCalls = 0
  /\ result.error.code = "ABORTED"

\* C5: an abort of the caller's signal during an in-flight attempt ends the
\* call at that moment with ABORTED; after an abort during the backoff
\* sleep the call leaves the sleep only to end with ABORTED; in both cases
\* no result is returned and the transport is not invoked again.
C5_CancellationNotSwallowed ==
  [][ /\ (phase = "inflight" /\ ~extAborted /\ extAborted')
           => /\ phase' = "done"
              /\ result' = Threw(abortedError)
              /\ transportCalls' = transportCalls
      /\ (phase = "backoff" /\ extAborted')
           => /\ transportCalls' = transportCalls
              /\ result'.kind # "returned"
              /\ phase' \in {"backoff", "done"}
              /\ (phase' = "done" /\ extAborted) => result' = Threw(abortedError)
      /\ (phase = "done" /\ result = Threw(abortedError))
           => (transportCalls' = transportCalls /\ result' = result)
    ]_vars

C5_Witness ==
  /\ attempt >= 2
  /\ phase = "done"
  /\ lastOrigin = "preabort"
  /\ transportCalls = attempt - 1
  /\ result = Threw(abortedError)

\* C6: the error a failed call delivers is exactly the classified error of
\* its last attempt: same code, status and message.
C6_LastErrorSurfaced ==
  (phase = "done" /\ result.kind = "threw")
    => /\ failures >= 1
       /\ result.error.code = lastError.code
       /\ result.error.status = lastError.status
       /\ result.error.message = lastError.message

C6_Witness ==
  /\ phase = "done"
  /\ failures = 3
  /\ "transport" \in origins
  /\ result.kind = "threw"
  /\ result.error.code = "HTTP_ERROR"
  /\ result.error.message = "Job not found"

\* 2^n, by repeated doubling.
RECURSIVE Pow2(_)
Pow2(n) == IF n = 0 THEN 1 ELSE 2 * Pow2(n - 1)

\* C7: the delay slept before retry k (k = 1 for the first retry) is
\* base * 2^(k-1) with exponential backoff and base * k with linear backoff
\* for a numeric retryDelay, and fn(k, 1000) whatever the backoff setting
\* when retryDelay is a function; retry k is the one that starts attempt k+1.
C7_BackoffDelay ==
  /\ \A k \in 1..Len(sleeps) :
       sleeps[k] =
         IF cfg.retryDelay.t = "function"
           THEN ApplyRetryDelayFn(cfg.retryDelay.fn, k, 1000)
           ELSE IF cfg.retryBackoff = "exponential"
                  THEN cfg.retryDelay.n * Pow2(k - 1)
                  ELSE cfg.retryDelay.n * k
  /\ Len(sleeps) = IF phase = "backoff" THEN attempt
                   ELSE IF attempt = 0 THEN 0 ELSE attempt - 1

C7_Witness ==
  /\ cfg.retryDelay.t = "number"
  /\ cfg.retryDelay.n = 100
  /\ cfg.retryBackoff = "exponential"
  /\ phase = "backoff"
  /\ sleeps = <<100, 200, 400>>

\* The attempt's transport answer has been looked at by `if (error || !data)`.
Settled ==
  /\ resp # NoResp
  /\ phase \in {"backoff", "done"}
  /\ lastOrigin # "onResponse" \/ result.kind = "returned"

\* C8: a call returns data only when the answer of its last attempt
\* reports no error and has data present, and it returns that data; an
\* answer that reports an error or no data (a 2xx answer with an empty body
\* included) makes the attempt an HTTP_ERROR with the answer's status, whose
\* message is the body's error field when the body is an object with one
\* and 'HTTP {status}' otherwise.
C8_ResponseClassification ==
  /\ result.kind = "returned"
       => /\ resp.error = BodyUndefined
          /\ resp.data # DataUndefined
          /\ result.data = resp.data
  /\ (Settled /\ (resp.error # BodyUndefined \/ resp.data = DataUndefined))
       => /\ result.kind # "returned"
          /\ lastOrigin = "response"
          /\ lastError.code = "HTTP_ERROR"
          /\ lastError.status = resp.status
          /\ lastError.message =
               IF resp.error.t = "object" /\ resp.error.hasError
                 THEN (IF resp.error.error.t = "str" THEN resp.error.error.s ELSE "42")
                 ELSE "HTTP " \o NumToString(resp.status)

C8_Witness ==
  /\ phase = "done"
  /\ lastOrigin = "response"
  /\ resp.status = 200
  /\ resp.data = DataUndefined
  /\ result.error.code = "HTTP_ERROR"
  /\ result.error.status = 200
  /\ result.error.message = "HTTP 200"

ErrorCodes == {"HTTP_ERROR", "NETWORK_ERROR", "TIMEOUT_ERROR", "ABORTED"}

\* C9: every error an attempt is classified as, and so every error a call
\* delivers, has a code among HTTP_ERROR, NETWORK_ERROR, TIMEOUT_ERROR and
\* ABORTED, and its status is defined exactly when the code is HTTP_ERROR.
C9_ErrorShape ==
  /\ failures >= 1
       => /\ lastError.code \in ErrorCodes
          /\ (lastError.status # Undefined) <=> (lastError.code = "HTTP_ERROR")
  /\ result.kind = "threw"
       => /\ result.error.code \in ErrorCodes
          /\ (result.error.status # Undefined) <=> (result.error.code = "HTTP_ERROR")
          /\ result.error.status # Undefined => result.error.status \in Statuses

C9_Witness ==
  /\ phase = "done"
  /\ failures = 1
  /\ result.error.code = "NETWORK_ERROR"
  /\ result.error.status = Undefined
  /\ lastOrigin = "transport"

C11_OnResponseOnlyOnSuccess ==
  phase = "onResponse"
    => /\ resp.status >= 200
       /\ resp.status < 300
       /\ resp.error = BodyUndefined

\* ------------------------------------------------- properties of stream()
IsPrefix(a, b) == Len(a) <= Len(b) /\ SubSeq(b, 1, Len(a)) = a

IsDataLine(line)  == Len(line) >= 6 /\ SubSeq(line, 1, 6) = <<"d", "a", "t", "a", ":", " ">>
IsErrorLine(line) == Len(line) >= 7 /\ SubSeq(line, 1, 7) = <<"e", "r", "r", "o", "r", ":", " ">>
IsDoneLine(line)  == line = <<"d", "a", "t", "a", ":", " ", "[", "D", "O", "N", "E", "]">>

\* The lines before the first 'data: [DONE]' line.
RECURSIVE BeforeDone(_)
BeforeDone(ls) ==
  IF ls = << >> \/ IsDoneLine(Head(ls)) THEN << >>
  ELSE <<Head(ls)>> \o BeforeDone(Tail(ls))

HasDone(ls) == \E i \in 1..Len(ls) : IsDoneLine(ls[i])

\* The event a line stands for, if any.
EventOf(line) ==
  IF IsDataLine(line) THEN <<[type |-> "content", data |-> SubSeq(line, 7, Len(line))]>>
  ELSE IF IsErrorLine(line) THEN <<[type |-> "error", data |-> SubSeq(line, 8, Len(line))]>>
  ELSE << >>

RECURSIVE EventsOf(_)
EventsOf(ls) == IF ls = << >> THEN << >> ELSE EventOf(Head(ls)) \o EventsOf(Tail(ls))

IsContent(e) == e.type = "content"
IsDone(e)    == e.type = "done"

\* C12: for a source of newline-terminated lines, the content events are the
\* remainders of the data lines before the first 'data: [DONE]', in order
\* (a prefix of them while the stream runs), no line after the sentinel
\* produces an event, and the sentinel is answered by a done event.
C12_DataLines ==
  source.terminated =>
    LET expected == EventsOf(BeforeDone(source.lines))
        yielded  == SelectSeq(events, LAMBDA e : ~IsDone(e))
    IN /\ IsPrefix(yielded, expected)
       /\ SelectSeq(yielded, IsContent) = SelectSeq(SubSeq(expected, 1, Len(yielded)), IsContent)
       /\ sPhase = "completed" => yielded = expected
       /\ sPhase = "completed" /\ HasDone(source.lines)
            => events = Append(expected, [type |-> "done", data |-> << >>])

C12_Witness ==
  /\ source = [lines |-> <<LineA, LineB, LineDone>>, terminated |-> TRUE]
  /\ sPhase = "completed"
  /\ events = <<ContentEvent(<<"A">>), ContentEvent(<<"B">>), DoneEvent>>

NumDone == Len(SelectSeq(events, IsDone))

\* C13: a stream never yields anything after a done event, and a stream that
\* ended without an error has yielded exactly one done event, as its last
\* event; when the sentinel was never received that event was made at the
\* end of the body.
C13_ExactlyOneDoneLast ==
  /\ NumDone <= 1
  /\ \A i \in 1..Len(events) : IsDone(events[i]) => i = Len(events)
  /\ sPhase = "completed"
       => /\ NumDone = 1
          /\ IsDone(events[Len(events)])
          /\ wire = << >> \/ HasDone(source.lines)

C13_Witness ==
  /\ source = [lines |-> <<LineA, LineError>>, terminated |-> TRUE]
  /\ sPhase = "completed"
  /\ wire = << >>
  /\ events = <<ContentEvent(<<"A">>), ErrorEvent(<<"E">>), DoneEvent>>

\* C14: the two stream timeouts are told apart by the connection state.  A
\* CONNECTION_TIMEOUT is raised only by an abort before the connection was
\* established, an IDLE_TIMEOUT only after it; the idle timer is not armed
\* before the connection and the connection timer is not armed after it, so
\* it cannot abort an established connection.
C14_TimeoutsByConnectionState ==
  /\ sError.code = "CONNECTION_TIMEOUT"
       => /\ ~isConnected
          /\ sAborted
          /\ sResp = NoStreamResp
          /\ sError.message = "Stream connection timeout after 2ms"
  /\ sError.code = "IDLE_TIMEOUT"
       => /\ isConnected
          /\ sAborted
          /\ sError.message = "Stream idle timeout after 1ms"
  /\ ~isConnected => idleTimer = Off
  /\ isConnected => connectionTimer = Off
  /\ sAborted /\ ~isConnected => sError.code = "CONNECTION_TIMEOUT"

C14_Witness ==
  /\ sPhase = "failed"
  /\ sError.code = "CONNECTION_TIMEOUT"
  /\ ~isConnected
  /\ events = << >>

\* C15: an IDLE_TIMEOUT is raised only when the source let at least
\* idleTimeout pass without delivering (between two chunks, or between the
\* connection and the first chunk): with gapMax the longest time the client
\* had nothing from the source, the error implies gapMax >= idleTimeout.
C15_IdleTimeoutOnlyWhenSourceStalls ==
  sError.code = "IDLE_TIMEOUT" => gapMax >= StreamIdleTimeout

\* C16: a stream whose first response is not 2xx yields no event, and when
\* it fails with an HTTP_ERROR the error carries the status of the response
\* and, as its message, the `error` field of the body when the body has
\* one, 'HTTP {status}' otherwise.
C16_StreamHttpError ==
  /\ sResp # NoStreamResp /\ ~responseOk(sResp) => events = << >>
  /\ sError.code = "HTTP_ERROR"
       => /\ ~responseOk(sResp)
          /\ sError.status = sResp.status
          /\ sError.message = IF sResp.body.hasError
                                THEN String(sResp.body.error)
                                ELSE "HTTP " \o NumToString(sResp.status)

\* ---------------------------------------------- properties of waitForJob()
\* A sequence without its repetitions of the element before.
RECURSIVE Dedup(_)
Dedup(seq) ==
  IF Len(seq) <= 1 THEN seq
  ELSE IF seq[Len(seq)] = seq[Len(seq) - 1]
         THEN Dedup(SubSeq(seq, 1, Len(seq) - 1))
         ELSE Append(Dedup(SubSeq(seq, 1, Len(seq) - 1)), seq[Len(seq)])

TerminalStatuses == {"completed", "failed", "crashed", "cancelled"}

\* C17: onStatusChange is called exactly for the polls whose status differs
\* from the status of the poll before (the first poll counts), with that
\* status and in poll order; two calls in a row never carry the same status.
C17_OnStatusChange ==
  /\ pOpts.hasOnStatusChange => statusCalls = Dedup(observed)
  /\ ~pOpts.hasOnStatusChange => statusCalls = << >>
  /\ \A i \in 1..(Len(statusCalls) - 1) : statusCalls[i] # statusCalls[i + 1]
  /\ observed # << >> => lastStatus = observed[Len(observed)]

C17_Witness ==
  /\ pOpts.hasOnStatusChange
  /\ pPhase = "returned"
  /\ observed = <<"running", "running", "completed">>
  /\ statusCalls = <<"running", "completed">>
  /\ pResult.poll = 3

C19_WaitForJobTerminates ==
  /\ [](pResult.error.code = "TIMEOUT_ERROR"
          => /\ pPhase = "threw"
             /\ now - startTime > pOpts.maxWaitTime
             /\ polls = Len(observed)
             /\ pResult.poll = polls
             /\ observed[Len(observed)] \in {"pending", "running"})
  /\ [](pPhase = "sleeping"
          => (now - startTime) - (pOpts.pollInterval - sleepLeft) <= pOpts.maxWaitTime)
  /\ <>(pPhase \in {"returned", "threw"})

C19_Witness ==
  /\ pPhase = "threw"
  /\ pResult.error = Err("Job job-1 did not complete within 2ms", "TIMEOUT_ERROR", Undefined)
  /\ observed = <<"running", "running", "running">>
  /\ now - startTime = 3

\* ------------------------------------------------ properties of the token
\* C20: every request that goes out while a token is stored (set by
\* setAuthToken and not cleared since) carries 'Authorization: Bearer t' for
\* that token t, whatever string t is, and a request that goes out while no
\* token is stored (as after a logout that succeeded) carries no
\* Authorization header.
C20_BearerAfterSetAuthToken ==
  lastRequest.by # "none"
    => lastRequest.authorization =
         IF lastRequest.token.defined
           THEN [present |-> TRUE, value |-> "Bearer " \o lastRequest.token.s]
           ELSE [present |-> FALSE, value |-> ""]

\* The step in which the running call ends.
CallEnds == phase # "done" /\ phase' = "done"

\* C21: when an authenticate or refreshToken call returns, the stored token
\* becomes the access_token of the response if the response carries one
\* (an empty access_token counts as none); when the call returns without one,
\* or ends in an error, the stored token stays what it was.
C21_TokenStoredOnSuccess ==
  [][ (CallEnds /\ callKind \in {"authenticate", "refreshToken"})
        => IF result'.kind = "returned" /\ issued'.defined /\ issued'.s # ""
             THEN authToken' = issued'
             ELSE authToken' = authToken ]_vars

C21_Witness ==
  /\ callKind = "authenticate"
  /\ phase = "done"
  /\ result.kind = "returned"
  /\ callToken = [defined |-> TRUE, s |-> "t1"]
  /\ issued = [defined |-> TRUE, s |-> "t2"]
  /\ authToken = [defined |-> TRUE, s |-> "t2"]

\* C22: when a logout call returns, no token is stored any more; when it
\* ends in an error (HTTP error, network error, timeout, abort) that error
\* is what the caller gets and the stored token stays what it was.
C22_LogoutClearsOnSuccessOnly ==
  [][ (CallEnds /\ callKind = "logout")
        => IF result'.kind = "returned"
             THEN authToken' = [defined |-> FALSE, s |-> ""]
             ELSE /\ authToken' = authToken
                  /\ result'.kind = "threw"
                  /\ result'.error = lastError'
                  /\ result'.error.code \in
                       {"HTTP_ERROR", "NETWORK_ERROR", "TIMEOUT_ERROR", "ABORTED"} ]_vars

C22_Witness ==
  /\ callKind = "logout"
  /\ phase = "done"
  /\ result.kind = "threw"
  /\ result.error.code = "HTTP_ERROR"
  /\ callToken = [defined |-> TRUE, s |-> "t1"]
  /\ authToken = [defined |-> TRUE, s |-> "t1"]

\* --------------------------------------- further properties of request()
\* C23: no timeout timer of a call is armed once an attempt has ended: none
\* during a backoff sleep and none after the call has ended, however it
\* ended.
C23_NoTimerAfterExit ==
  phase \in {"backoff", "done"} => timers = {}
\* C24: the attempts of a call come one after the other.  Attempt k+1
\* starts only from the backoff sleep after attempt k, when k failures have
\* been classified, onError has been called for each of them and k sleeps
\* have been made; and the transport is invoked only while no transport
\* call of the same call is pending, at most once per attempt.
C24_AttemptsSequential ==
  [][ /\ (attempt' # attempt /\ attempt >= 1)
           => /\ attempt' = attempt + 1
              /\ phase = "backoff"
              /\ failures = attempt
              /\ Len(sleeps) = attempt
              /\ cfg.hasOnError
                   => (onErrorCalls.count = attempt /\ onErrorCalls.last = lastError)
      /\ transportCalls' # transportCalls
           => /\ transportCalls' = transportCalls + 1
              /\ phase # "inflight"
              /\ transportCalls' <= attempt' ]_vars

C24_Witness ==
  /\ phase = "inflight"
  /\ attempt = 3
  /\ transportCalls = 3
  /\ failures = 2
  /\ Len(sleeps) = 2
  /\ cfg.hasOnError
  /\ onErrorCalls.count = 2
\* C25: a failure of the onRequest hook ends the call in an error: once the
\* hook has failed, the call is over with an error for the caller and
\* nothing more was tried (no backoff, no further attempt).
C25_OnRequestFailurePropagates ==
  "onRequest" \in origins
    => /\ phase = "done"
       /\ result.kind = "threw"
       /\ lastOrigin = "onRequest"
       /\ sleeps = << >>
\* ---------------------------------------- further properties of stream()
\* The lines the client received in full: all but a last line without newline.
CompleteLines ==
  IF source.terminated \/ source.lines = << >>
    THEN source.lines
    ELSE SubSeq(source.lines, 1, Len(source.lines) - 1)

IsError(e) == e.type = "error"

\* C26: every 'error: ' line received before the sentinel yields an error
\* event with its remainder and the events of the lines after it still
\* follow; lines with neither prefix, empty lines included, yield nothing
\* and could as well not be there: the events are those of the data and
\* error lines alone.
C26_ErrorAndOtherLines ==
  LET ls      == BeforeDone(CompleteLines)
      kept    == SelectSeq(ls, LAMBDA l : IsDataLine(l) \/ IsErrorLine(l))
      yielded == SelectSeq(events, LAMBDA e : ~IsDone(e))
  IN /\ SelectSeq(yielded, IsError)
          = SubSeq(SelectSeq(EventsOf(ls), IsError), 1, Len(SelectSeq(yielded, IsError)))
     /\ Len(yielded) <= Len(kept)
     /\ \A i \in 1..Len(yielded) : <<yielded[i]>> = EventOf(kept[i])
     /\ sPhase = "completed" => Len(yielded) = Len(kept)

C26_Witness ==
  /\ source = [lines |-> <<LineError, LineEmpty, LineA>>, terminated |-> TRUE]
  /\ sPhase = "completed"
  /\ events = <<ErrorEvent(<<"E">>), ContentEvent(<<"A">>), DoneEvent>>
\* The text the client has read so far, whatever the chunks were.
ReceivedText ==
  LET full == JoinLines(source.lines, source.terminated)
  IN SubSeq(full, 1, Len(full) - Len(wire))

\* The events of a source, read line by line from the whole text.
DecodeWhole ==
  Append(EventsOf(BeforeDone(CompleteLines)), [type |-> "done", data |-> << >>])

\* C27: the events do not depend on where the text was cut into chunks:
\* they are always a prefix of, and at the end of the stream equal to, the
\* events of the whole text read line by line; and the buffer always holds
\* exactly the text read after the last newline, so that a line, a prefix
\* or a sentinel cut in two is put together again by the next chunk.
C27_ChunkIndependence ==
  /\ IsPrefix(events, DecodeWhole)
  /\ sPhase = "completed" => events = DecodeWhole
  /\ \A i \in 1..Len(buffer) : buffer[i] # "\n"
  /\ Len(buffer) <= Len(ReceivedText)
  /\ SubSeq(ReceivedText, Len(ReceivedText) - Len(buffer) + 1, Len(ReceivedText)) = buffer
  /\ Len(buffer) < Len(ReceivedText)
       => ReceivedText[Len(ReceivedText) - Len(buffer)] = "\n"

C27_Witness ==
  /\ source = [lines |-> <<LineA, LineDone, LineB>>, terminated |-> TRUE]
  /\ sPhase = "reading"
  /\ buffer = <<"d", "a", "t", "a", ":", " ", "[", "D">>
  /\ events = <<ContentEvent(<<"A">>)>>
\* C28: once stream() is over, whether it ran to its end, returned at the
\* sentinel, failed (HTTP error, timeout, network error, missing body) or
\* was left by its consumer, neither of its timers is armed.
C28_StreamTimersCleared ==
  sPhase \in {"completed", "failed", "abandoned"}
    => (idleTimer = Off /\ connectionTimer = Off)

C28_Witness ==
  /\ sPhase = "abandoned"
  /\ isConnected
  /\ ~sAborted
  /\ events = <<ContentEvent(<<"A">>)>>
  /\ wire # << >>
  /\ idleTimer = Off
  /\ connectionTimer = Off
\* ---------------------------------------- further properties of the token
\* C29 as stated: every transport attempt of a call carries the token that
\* was stored when the call was made.
C29_TokenSnapshotPerCall ==
  (phase \in {"inflight", "onResponse"} /\ lastRequest.by = "request")
    => lastRequest.token = callToken

\* C29, amended: the token is read each time a transport attempt is built.
\* The request of every attempt, retries included, carries the token that
\* is stored at the moment that attempt is handed to the transport: as
\* 'Authorization: Bearer t' when that token is a non-empty string, as no
\* header when it is undefined or empty.
C29_TokenReadPerAttempt ==
  [][ (transportCalls' = transportCalls + 1 /\ phase' = "inflight")
        => /\ lastRequest'.by = "request"
           /\ lastRequest'.token = authToken
           /\ lastRequest'.authorization =
                IF authToken.defined /\ authToken.s # ""
                  THEN [present |-> TRUE, value |-> "Bearer " \o authToken.s]
                  ELSE [present |-> FALSE, value |-> ""] ]_vars

C29_Witness ==
  /\ phase = "inflight"
  /\ attempt = 2
  /\ callToken = [defined |-> FALSE, s |-> ""]
  /\ lastRequest = [by |-> "request", token |-> [defined |-> TRUE, s |-> "t1"],
                    authorization |-> [present |-> TRUE, value |-> "Bearer t1"]]

\* ------------------------------------------- properties of isCompatible
\* The version a string stands for, read off the positions of its characters:
\* the core lies between the leading range operators and the first hyphen,
\* its components between its dots.
CoreOf(v) ==
  LET first == { i \in 1..Len(v) : v[i] \notin RangeOperators }
      hyphens == { i \in 1..Len(v) : v[i] = "-" }
      lo == IF first = {} THEN Len(v) + 1
            ELSE CHOOSE i \in first : \A j \in first : i <= j
      hi == IF hyphens = {} THEN Len(v)
            ELSE (CHOOSE i \in hyphens : \A j \in hyphens : i <= j) - 1
  IN  SubSeq(v, lo, hi)

\* The k-th component of a core (k from 1), empty when there is none.
ComponentOf(c, k) ==
  LET dots == { i \in 1..Len(c) : c[i] = "." }
      dot(j) == CHOOSE i \in dots : Cardinality({ d \in dots : d < i }) = j - 1
      lo == IF k = 1 THEN 1 ELSE dot(k - 1) + 1
      hi == IF k <= Cardinality(dots) THEN dot(k) - 1 ELSE Len(c)
  IN  IF k - 1 > Cardinality(dots) THEN << >> ELSE SubSeq(c, lo, hi)

\* The number a component stands for: its leading digits in base ten, 0 when
\* it has none (a missing or a non-numeric component).
RECURSIVE Pow10(_)
Pow10(n) == IF n = 0 THEN 1 ELSE 10 * Pow10(n - 1)
RECURSIVE SumTo(_, _)
SumTo(f, n) == IF n = 0 THEN 0 ELSE f[n] + SumTo(f, n - 1)
NumberOf(s) ==
  LET n == CHOOSE m \in 0..Len(s) :
             /\ \A i \in 1..m : IsDigit(s[i])
             /\ (m < Len(s) => ~IsDigit(s[m + 1]))
  IN  SumTo([i \in 1..n |-> DigitValue(s[i]) * Pow10(n - i)], n)

TripleOf(v) == [k \in 1..3 |-> NumberOf(ComponentOf(CoreOf(v), k))]

LexGE(a, b) ==
  \/ a[1] > b[1]
  \/ a[1] = b[1] /\ a[2] > b[2]
  \/ a[1] = b[1] /\ a[2] = b[2] /\ a[3] >= b[3]

\* C30: isCompatible(v) is true exactly when the (major, minor, patch) triple
\* of v, read after the leading range operators and before the pre-release
\* suffix, with a missing or non-numeric component counted as 0, is
\* lexicographically at least (0, 3, 0).
C30_CompatibleIffAtLeastMinimum ==
  vPhase = "checked"
    => (compatible <=> LexGE(TripleOf(apiVersion), <<0, 3, 0>>))

\* ">0.10" is compatible: the operator is dropped, the patch is missing and
\* 10 is compared with 3 as a number.
C30_Witness ==
  /\ vPhase = "checked"
  /\ apiVersion = <<">", "0", ".", "1", "0">>
  /\ compatible

\* ------------------------------------------- further properties of calls
\* C31: once a transport attempt of a call has returned a successful
\* response (no error, data present), no further transport attempt is made
\* for that call, whatever the onResponse hook does.
C31_NoResendAfterSuccess ==
  [][ (resp # NoResp /\ ~isFailure(resp)) => transportCalls' = transportCalls ]_vars

\* C32: the request timeout bounds each transport attempt separately.  An
\* attempt that starts arms a timer of its own; while an attempt runs, the
\* only timer of the call is that attempt's, armed or already fired; no
\* timer is armed during a backoff sleep; and a call ends in TIMEOUT_ERROR
\* only when the timer of its last attempt has fired (on the attempt's
\* fetch, or before the fetch was handed the aborted signal), so that the
\* attempts and sleeps before it do not count against the timeout.
C32_TimeoutPerAttempt ==
  /\ [](phase = "backoff" => timers = {})
  /\ [](phase \in {"onRequest", "inflight", "onResponse"}
          => /\ timers \subseteq {attempt}
             /\ (attempt \in timers \/ ctrlAborted))
  /\ []((result.kind = "threw" /\ result.error.code = "TIMEOUT_ERROR")
          => /\ lastOrigin \in {"timer", "presend"}
             /\ ctrlAborted
             /\ attempt \notin timers)
  /\ [][attempt' # attempt => attempt' \in timers']_vars

\* A call that times out on its second attempt, after a whole first attempt
\* and a backoff sleep.
C32_Witness ==
  /\ phase = "done"
  /\ attempt = 2
  /\ Len(sleeps) = 1
  /\ result.kind = "threw"
  /\ result.error.code = "TIMEOUT_ERROR"
  /\ lastOrigin = "timer"

\* C33: isAuthenticated() is true exactly when getAuthToken() is not
\* undefined, and a request carries an Authorization header exactly when
\* isAuthenticated() was true of the token stored when the request was built.
C33_AccessorAgreesWithHeader ==
  /\ isAuthenticated(authToken) <=> getAuthToken(authToken).defined
  /\ lastRequest.by # "none"
       => (lastRequest.authorization.present <=> isAuthenticated(lastRequest.token))

\* C34: token writes are last-write-wins at completion time.  When the
\* stored token has changed since a call was made, a logout that returns
\* still clears it, and an authenticate or refreshToken that returns with an
\* access token to store still replaces it with that access token.
C34_LastWriteWins ==
  [][ (CallEnds /\ result'.kind = "returned" /\ authToken # callToken)
        => /\ callKind = "logout" => authToken' = [defined |-> FALSE, s |-> ""]
           /\ (callKind \in {"authenticate", "refreshToken"}
                 /\ issued'.defined /\ issued'.s # "")
                => authToken' = issued' ]_vars

\* A logout made without a token; "t1" is stored while it runs (its request
\* already carries it) and is gone when the logout returns.
C34_Witness ==
  /\ callKind = "logout"
  /\ phase = "done"
  /\ result.kind = "returned"
  /\ callToken = [defined |-> FALSE, s |-> ""]
  /\ lastRequest.by = "request"
  /\ lastRequest.token = [defined |-> TRUE, s |-> "t1"]
  /\ authToken = [defined |-> FALSE, s |-> ""]

\* ---------------------------------------- further properties of stream()
\* C35: stream() opens one connection per invocation and is outside the
\* request engine.  fetch is called only by the step that starts the stream;
\* a stream that has failed stays failed (no retry, whatever `retries` is);
\* and the stream leaves the request engine untouched: no attempt, no
\* transport call, no backoff sleep, no request timeout timer and no
\* onRequest, onResponse or onError hook.
C35_StreamOutsideEngine ==
  /\ [](/\ phase = "idle"
        /\ attempt = 0
        /\ transportCalls = 0
        /\ sleeps = << >>
        /\ timers = {}
        /\ onErrorCalls.count = 0)
  /\ [][lastRequest' # lastRequest => (sPhase = "idle" /\ lastRequest'.by = "stream")]_vars
  /\ [][sPhase' = "connecting" => sPhase \in {"idle", "connecting"}]_vars
  /\ [][sPhase = "failed" => sPhase' = "failed"]_vars

\* A stream of a client with retries and all hooks that failed on a 500.
C35_Witness ==
  /\ sPhase = "failed"
  /\ sError.code = "HTTP_ERROR"
  /\ sError.status = 500
  /\ cfg.retries = 1
  /\ cfg.hasOnError
  /\ lastRequest.by = "stream"
  /\ transportCalls = 0

\* C36: the stream only ever yields events of type content, error or done:
\* whatever the lines of the body are, no tool_use and no tool_result event
\* is yielded, and the payload of a data line is handed on as it is.
C36_OnlyThreeEventTypes ==
  /\ \A i \in 1..Len(events) : events[i].type \in {"content", "error", "done"}
  /\ \A i \in 1..Len(events) :
       events[i].type = "content"
         => \E j \in 1..Len(source.lines) :
              source.lines[j] = DataPrefix \o events[i].data

C36_Witness ==
  /\ source = [lines |-> <<LineB, LineError, LineDone>>, terminated |-> TRUE]
  /\ sPhase = "completed"
  /\ events = <<ContentEvent(<<"B">>), ErrorEvent(<<"E">>), DoneEvent>>

\* C37: text received after the last newline is never classified.  The end
\* of the body yields the done event and nothing else, whatever the buffer
\* holds; and when the body ended in a line without a newline, that line
\* (a 'data: X' or a 'data: [DONE]' as well) is still in the buffer and the
\* events are those of the lines before it, followed by the done event.
C37_UnterminatedLineDropped ==
  /\ [][ (after # "break" /\ after' = "break")
           => (events' = Append(events, DoneEvent) /\ buffer' = buffer) ]_vars
  /\ [](after = "break" /\ ~source.terminated /\ source.lines # << >>
          => /\ buffer = source.lines[Len(source.lines)]
             /\ events = Append(EventsOf(SubSeq(source.lines, 1, Len(source.lines) - 1)),
                                DoneEvent))

C37_Witness ==
  /\ source = [lines |-> <<LineA, LineB>>, terminated |-> FALSE]
  /\ sPhase = "completed"
  /\ after = "break"
  /\ buffer = LineB
  /\ events = <<ContentEvent(<<"A">>), DoneEvent>>

\* C38: the connection of a stream is aborted only by its connection timer
\* or its idle timer, in the step in which that timer fires.  When the
\* consumer leaves at an event, the timers are cleared, the controller is
\* not aborted and the body is left as it is: what the server has sent and
\* has still to send is not touched.
C38_AbortOnlyByTimers ==
  /\ [][ sAborted' # sAborted
           => /\ sAborted'
              /\ \/ (connectionTimer = 0 /\ ~isConnected)
                 \/ idleTimer = 0 ]_vars
  /\ [][ (sPhase # "abandoned" /\ sPhase' = "abandoned")
           => /\ sAborted' = sAborted
              /\ idleTimer' = Off
              /\ connectionTimer' = Off
              /\ wire' = wire
              /\ avail' = avail ]_vars
  /\ [][ sPhase = "abandoned" => sAborted' = sAborted ]_vars

C38_Witness ==
  /\ sPhase = "abandoned"
  /\ ~sAborted
  /\ events = <<ContentEvent(<<"A">>), ErrorEvent(<<"E">>)>>
  /\ wire # << >>
  /\ idleTimer = Off

\* ------------------------------------- further properties of waitForJob()
\* C39: waitForJob fetches the status at least once before it ends, also
\* with maxWaitTime = 0, and a terminal status takes precedence over the
\* deadline: a poll that observes a terminal status returns the record
\* however much time has passed since the call started.
C39_TerminalBeforeDeadline ==
  /\ [](pPhase \in {"returned", "threw"} => (polls >= 1 /\ pResult.poll >= 1))
  /\ [][ (pPhase = "fetching" /\ Len(observed') = Len(observed) + 1
            /\ observed'[Len(observed')] \in TerminalStatuses)
           => /\ pPhase' = "returned"
              /\ pResult' = [kind |-> "returned", status |-> observed'[Len(observed')],
                             poll |-> polls, error |-> NoErr] ]_vars

\* With maxWaitTime = 0 the first poll takes two ticks and observes
\* `completed`: the record is returned past the deadline.
C39_Witness ==
  /\ pOpts.maxWaitTime = 0
  /\ pPhase = "returned"
  /\ observed = <<"completed">>
  /\ now - startTime = 2
  /\ pResult = PollReturned("completed", 1)

\* C40: waitForJob does not recover from a failed status fetch.  When a
\* getJob call fails, waitForJob ends in that step with the error of getJob
\* as it is, the status callback is not called and the last status is not
\* changed for that poll, and no poll follows.
C40_FailedFetchEndsWait ==
  /\ [][ (pPhase = "fetching" /\ pPhase' # "fetching" /\ observed' = observed)
           => /\ pPhase' = "threw"
              /\ pResult'.kind = "threw"
              /\ pResult'.error \in GetJobErrors
              /\ pResult'.poll = polls
              /\ statusCalls' = statusCalls
              /\ lastStatus' = lastStatus ]_vars
  /\ [][ pPhase = "threw" => (pPhase' = "threw" /\ polls' = polls) ]_vars

\* The second poll fails with a network error after a first poll that
\* observed `running`.
C40_Witness ==
  /\ pOpts.hasOnStatusChange
  /\ pPhase = "threw"
  /\ pResult = PollThrew(networkError, 2)
  /\ observed = <<"running">>
  /\ statusCalls = <<"running">>
  /\ polls = 2

====
